---- MODULE Spec2Model ----
(***************************************************************************)
(* A model of tr-nums.py: the generators inv_tr_nums and inv_gap_nums and  *)
(* the module-level driver that prints the first N terms of four of them.  *)
(*                                                                         *)
(* The program computes with IEEE-754 doubles (scipy.special.gamma, float  *)
(* multiplication and division) and with fractions.Fraction, whose         *)
(* numerators and denominators are unbounded integers.  Both are modelled  *)
(* exactly: an unbounded natural number is a little-endian sequence of     *)
(* limbs in base LimbBase, a double is a 53-bit mantissa with a binary     *)
(* exponent (or inf, nan, zero), a Fraction is a sign with a numerator and *)
(* a denominator in lowest terms.                                          *)
(*                                                                         *)
(* Two points of style keep the evaluation cheap.  Operands are bound by   *)
(* value on entry (Let1, Let2, Let3), as a Python call evaluates its       *)
(* arguments once, and carries are resolved by look-ahead rather than by   *)
(* recursion over the limbs, so that a 1024-bit factorial can be formed.   *)
(***************************************************************************)
EXTENDS Integers, Sequences, FiniteSets, TLC

\* F applied to the values of its operands
Let1(e, F(_)) == CHOOSE r \in {F(v) : v \in {e}} : TRUE
Let2(e1, e2, F(_, _)) == CHOOSE r \in {F(v, w) : v \in {e1}, w \in {e2}} : TRUE
Let3(e1, e2, e3, F(_, _, _)) ==
    CHOOSE r \in {F(u, v, w) : u \in {e1}, v \in {e2}, w \in {e3}} : TRUE

Min(a, b) == IF a <= b THEN a ELSE b
Max(a, b) == IF a >= b THEN a ELSE b

\* a function on 1..k as an explicit tuple
Tup(f) == f \o << >>

(***************************************************************************)
(* Unbounded naturals (Python int): <<>> is 0, the last limb is nonzero.   *)
(***************************************************************************)
LimbBits == 12
LimbBase == 2 ^ LimbBits

BigOne == << 1 >>

Limb(a, i) == IF 1 <= i /\ i <= Len(a) THEN a[i] ELSE 0

\* a natural of at most two limbs is handled as a machine integer
Small(a) == Len(a) <= 2
ToNat(a) == Limb(a, 1) + Limb(a, 2) * LimbBase

\* the index of the highest nonzero entry of a, 0 when there is none
TopIndex(a) ==
    CHOOSE m \in 0..Len(a) :
        (m = 0 \/ a[m] # 0) /\ \A k \in (m + 1)..Len(a) : a[k] = 0

BigNorm(a) == Let1(a, LAMBDA v : SubSeq(v, 1, TopIndex(v)))

RECURSIVE BigOfNat(_)
BigOfNat(k) ==
    IF k = 0 THEN << >> ELSE << k % LimbBase >> \o BigOfNat(k \div LimbBase)

\* whether a carry enters position i of s, whose entries are at most LimbBase
CarryIn(s, i) ==
    \E j \in 1..(i - 1) :
        /\ s[j] >= LimbBase
        /\ \A k \in (j + 1)..(i - 1) : s[k] = LimbBase - 1

\* s, whose entries are at most LimbBase, as limbs
Propagate(s) ==
    Let1(s, LAMBDA v :
        BigNorm(Tup([i \in 1..(Len(v) + 1) |->
            (Limb(v, i) + (IF CarryIn(v, i) THEN 1 ELSE 0)) % LimbBase])))

BigAdd(a, b) ==
    Let2(a, b, LAMBDA v, w :
        IF Small(v) /\ Small(w) THEN BigOfNat(ToNat(v) + ToNat(w))
        ELSE Propagate(Tup([i \in 1..Max(Len(v), Len(w)) |-> Limb(v, i) + Limb(w, i)])))

BorrowIn(a, b, i) ==
    \E j \in 1..(i - 1) :
        /\ a[j] < Limb(b, j)
        /\ \A k \in (j + 1)..(i - 1) : a[k] = Limb(b, k)

\* a - b for a >= b
BigSub(a, b) ==
    Let2(a, b, LAMBDA v, w :
        IF Small(v) /\ Small(w) THEN BigOfNat(ToNat(v) - ToNat(w))
        ELSE BigNorm(Tup([i \in 1..Len(v) |->
            (v[i] - Limb(w, i) - (IF BorrowIn(v, w, i) THEN 1 ELSE 0) + LimbBase)
                % LimbBase])))

\* -1, 0, 1 as a < b, a = b, a > b
BigCmp(a, b) ==
    Let2(a, b, LAMBDA v, w :
        IF Len(v) < Len(w) THEN -1
        ELSE IF Len(v) > Len(w) THEN 1
        ELSE IF v = w THEN 0
        ELSE Let1(CHOOSE m \in 1..Len(v) :
                      v[m] # w[m] /\ \A k \in (m + 1)..Len(v) : v[k] = w[k],
                  LAMBDA m : IF v[m] < w[m] THEN -1 ELSE 1))

\* the sum of a[i] * b[k + 1 - i] for i in lo..hi
RECURSIVE ConvSum(_, _, _, _, _)
ConvSum(a, b, k, lo, hi) ==
    IF lo > hi THEN 0
    ELSE IF lo = hi THEN a[lo] * b[k + 1 - lo]
    ELSE Let1((lo + hi) \div 2, LAMBDA mid :
             ConvSum(a, b, k, lo, mid) + ConvSum(a, b, k, mid + 1, hi))

\* one pass of carrying: every entry keeps its low limb and takes the
\* overflow of the entry below
CarryPass(c) ==
    Let1(c, LAMBDA v :
        Tup([k \in 1..Len(v) |->
            (v[k] % LimbBase) + (IF k = 1 THEN 0 ELSE v[k - 1] \div LimbBase)]))

BigMul(a, b) ==
    Let2(a, b, LAMBDA v, w :
        IF v = << >> \/ w = << >> THEN << >>
        ELSE IF Len(v) + Len(w) <= 2 THEN BigOfNat(v[1] * w[1])
        ELSE Propagate(CarryPass(CarryPass(CarryPass(
                 Tup([k \in 1..(Len(v) + Len(w)) |->
                     ConvSum(v, w, k, Max(1, k + 1 - Len(w)), Min(k, Len(v)))]))))))

RECURSIVE SmallBitLen(_)
SmallBitLen(k) == IF k = 0 THEN 0 ELSE 1 + SmallBitLen(k \div 2)

BitLen(a) ==
    Let1(a, LAMBDA v :
        IF v = << >> THEN 0 ELSE (Len(v) - 1) * LimbBits + SmallBitLen(v[Len(v)]))

\* floor(a / 2^s)
ShiftRight(a, s) ==
    Let3(a, s \div LimbBits, s % LimbBits, LAMBDA v, q, r :
        IF q >= Len(v) THEN << >>
        ELSE BigNorm(Tup([i \in 1..(Len(v) - q) |->
                 (v[i + q] \div (2 ^ r))
                 + (Limb(v, i + q + 1) % (2 ^ r)) * (2 ^ (LimbBits - r))])))

\* a * 2^s
ShiftLeft(a, s) ==
    Let3(a, s \div LimbBits, s % LimbBits, LAMBDA v, q, r :
        IF v = << >> THEN v
        ELSE BigNorm(Tup([i \in 1..(Len(v) + q + 1) |->
                 ((Limb(v, i - q) % (2 ^ (LimbBits - r))) * (2 ^ r))
                 + (Limb(v, i - q - 1) \div (2 ^ (LimbBits - r)))])))

\* bit i of a (bit 0 is the lowest)
Bit(a, i) ==
    Let2(a, i, LAMBDA v, j :
        (Limb(v, (j \div LimbBits) + 1) \div (2 ^ (j % LimbBits))) % 2)

\* whether a mod 2^s is nonzero
LowBitsSet(a, s) ==
    Let2(a, s, LAMBDA v, t :
        \/ \E i \in 1..Min(Len(v), t \div LimbBits) : v[i] # 0
        \/ Limb(v, (t \div LimbBits) + 1) % (2 ^ (t % LimbBits)) # 0)

\* the number of trailing zero bits of a > 0
TrailingZeros(a) ==
    Let1(a, LAMBDA v :
        Let1(CHOOSE j \in 1..Len(v) : v[j] # 0 /\ \A k \in 1..(j - 1) : v[k] = 0,
             LAMBDA i :
                (i - 1) * LimbBits
                + (CHOOSE t \in 0..(LimbBits - 1) :
                      /\ (v[i] \div (2 ^ t)) % 2 = 1
                      /\ \A u \in 0..(t - 1) : (v[i] \div (2 ^ u)) % 2 = 0)))

BigPow2(k) == ShiftLeft(BigOne, k)

\* one step of shift-and-subtract division by b: p.r is what is left of
\* the dividend, p.q the quotient so far, p.i the bit to decide
DivStep(p, b) ==
    Let2(p, b, LAMBDA v, w :
        IF v.i < 0 THEN v
        ELSE Let1(ShiftLeft(w, v.i), LAMBDA t :
                 IF BigCmp(v.r, t) >= 0
                 THEN [r |-> BigSub(v.r, t), q |-> BigAdd(v.q, BigPow2(v.i)),
                       i |-> v.i - 1]
                 ELSE [r |-> v.r, q |-> v.q, i |-> v.i - 1]))

\* k >= 1 steps of the division, by halving k
RECURSIVE DivLoop(_, _, _)
DivLoop(p, b, k) ==
    Let3(p, b, k, LAMBDA v, w, j :
        IF j = 1 THEN DivStep(v, w)
        ELSE DivLoop(DivLoop(v, w, j \div 2), w, j - (j \div 2)))

\* [q |-> floor(a / b), r |-> a mod b] for b > 0
BigDivMod(a, b) ==
    Let2(a, b, LAMBDA v, w :
        IF Small(v) /\ Small(w)
        THEN [q |-> BigOfNat(ToNat(v) \div ToNat(w)), r |-> BigOfNat(ToNat(v) % ToNat(w))]
        ELSE Let1(BitLen(v) - BitLen(w), LAMBDA i :
                 IF i < 0 THEN [q |-> << >>, r |-> v]
                 ELSE Let1(DivLoop([r |-> v, q |-> << >>, i |-> i], w, i + 1),
                           LAMBDA p : [q |-> p.q, r |-> p.r])))

RECURSIVE GcdNat(_, _)
GcdNat(a, b) == Let2(a, b, LAMBDA v, w : IF w = 0 THEN v ELSE GcdNat(w, v % w))

GcdStep(p) ==
    Let1(p, LAMBDA v :
        IF v[2] = << >> THEN v ELSE << v[2], BigDivMod(v[1], v[2]).r >>)

\* k >= 1 steps of Euclid's algorithm, by halving k
RECURSIVE GcdSteps(_, _)
GcdSteps(p, k) ==
    Let2(p, k, LAMBDA v, j :
        IF j = 1 THEN GcdStep(v)
        ELSE GcdSteps(GcdSteps(v, j \div 2), j - (j \div 2)))

RECURSIVE GcdLoop(_)
GcdLoop(p) ==
    Let1(p, LAMBDA v :
        IF v[2] = << >> THEN v[1]
        ELSE IF Small(v[1]) /\ Small(v[2])
        THEN BigOfNat(GcdNat(ToNat(v[1]), ToNat(v[2])))
        ELSE GcdLoop(GcdSteps(v, 8)))

BigGcd(a, b) == GcdLoop(<< a, b >>)

\* the product lo * (lo + 1) * ... * hi, by halving
RECURSIVE BigProd(_, _)
BigProd(lo, hi) ==
    Let2(lo, hi, LAMBDA l, h :
        IF l > h THEN BigOne
        ELSE IF l = h THEN BigOfNat(l)
        ELSE BigMul(BigProd(l, (l + h) \div 2), BigProd(((l + h) \div 2) + 1, h)))

(***************************************************************************)
(* IEEE-754 binary64 (numpy.float64): a finite nonzero value is m * 2^e    *)
(* with a mantissa m of exactly MantBits bits; only values >= 0 occur.     *)
(* The values here are factorials and their quotients, all >= 1, so the    *)
(* subnormal range is not represented.                                     *)
(***************************************************************************)
MantBits == 53
MaxExp == 1023

FInf == [cls |-> "inf"]
FNaN == [cls |-> "nan"]
FZero == [cls |-> "zero"]

\* m * 2^e for a mantissa of MantBits bits, inf beyond the largest double
Pack(m, e) ==
    IF e + MantBits - 1 > MaxExp THEN FInf ELSE [cls |-> "fin", m |-> m, e |-> e]

\* k without its s lowest bits, rounded to nearest, ties to even
RoundShift(k, s) ==
    Let2(k, s, LAMBDA v, t :
        Let1(ShiftRight(v, t), LAMBDA q :
            IF Bit(v, t - 1) = 1 /\ (LowBitsSet(v, t - 1) \/ Bit(q, 0) = 1)
            THEN BigAdd(q, BigOne)
            ELSE q))

\* the double nearest to k * 2^e0 for a natural k > 0
RoundToDouble(k, e0) ==
    Let3(k, e0, BitLen(k) - MantBits, LAMBDA v, e, s :
        IF s <= 0 THEN Pack(ShiftLeft(v, -s), e + s)
        ELSE Let1(RoundShift(v, s), LAMBDA q :
                 IF BitLen(q) > MantBits
                 THEN Pack(ShiftRight(q, 1), e + s + 1)
                 ELSE Pack(q, e + s)))

\* float64 * float64
FMul(a, b) ==
    Let2(a, b, LAMBDA v, w :
        CASE v.cls = "nan" \/ w.cls = "nan" -> FNaN
          [] v.cls = "inf" -> IF w.cls = "zero" THEN FNaN ELSE FInf
          [] w.cls = "inf" -> IF v.cls = "zero" THEN FNaN ELSE FInf
          [] v.cls = "zero" \/ w.cls = "zero" -> FZero
          [] OTHER -> RoundToDouble(BigMul(v.m, w.m), v.e + w.e))

\* float64 / float64 (numpy: x / 0 is inf or nan with a warning, no exception)
FDiv(a, b) ==
    Let2(a, b, LAMBDA v, w :
        CASE v.cls = "nan" \/ w.cls = "nan" -> FNaN
          [] v.cls = "inf" -> IF w.cls = "inf" THEN FNaN ELSE FInf
          [] w.cls = "inf" -> FZero
          [] w.cls = "zero" -> IF v.cls = "zero" THEN FNaN ELSE FInf
          [] v.cls = "zero" -> FZero
          [] OTHER ->
               \* the quotient to MantBits + 3 bits, the last of them set when
               \* the division leaves a remainder
               Let1(BigDivMod(ShiftLeft(v.m, MantBits + 2), w.m), LAMBDA dm :
                   RoundToDouble(
                       BigAdd(ShiftLeft(dm.q, 1),
                              IF dm.r = << >> THEN << >> ELSE BigOne),
                       v.e - w.e - MantBits - 3)))

\* scipy.special.gamma at a positive integer x: the double nearest to
\* (x - 1)!, which is inf from x = 172 on
gamma(x) == RoundToDouble(BigProd(1, x - 1), 0)

(***************************************************************************)
(* fractions.Fraction: a sign, a numerator and a denominator in lowest     *)
(* terms; zero is not negative.  An operation that raises gives            *)
(* [ok |-> FALSE, err |-> the exception], otherwise [ok |-> TRUE, v |-> _].*)
(***************************************************************************)
Ok(v) == [ok |-> TRUE, v |-> v]
Raise(e) == [ok |-> FALSE, err |-> e]

\* the Fraction numerator/denominator of two naturals with the sign neg, in lowest terms
Reduced(neg, numerator, denominator) ==
    Let3(neg, numerator, denominator, LAMBDA s, p, q :
        IF p = << >> THEN [neg |-> FALSE, numerator |-> << >>, denominator |-> BigOne]
        ELSE Let1(BigGcd(p, q), LAMBDA g :
                 [neg |-> s, numerator |-> BigDivMod(p, g).q, denominator |-> BigDivMod(q, g).q]))

\* Fraction(p, q) for two small integers, q > 0
Q(p, q) == Reduced(p < 0, BigOfNat(IF p < 0 THEN -p ELSE p), BigOfNat(q))

\* Fraction(f) for a float f: float.as_integer_ratio, which is exact
Fraction(f) ==
    Let1(f, LAMBDA v :
        CASE v.cls = "inf" -> Raise("OverflowError")
          [] v.cls = "nan" -> Raise("ValueError")
          [] v.cls = "zero" -> Ok([neg |-> FALSE, numerator |-> << >>, denominator |-> BigOne])
          [] OTHER ->
               IF v.e >= 0
               THEN Ok([neg |-> FALSE, numerator |-> ShiftLeft(v.m, v.e), denominator |-> BigOne])
               ELSE Let1(Min(TrailingZeros(v.m), -v.e), LAMBDA k :
                        Ok([neg |-> FALSE, numerator |-> ShiftRight(v.m, k),
                            denominator |-> BigPow2(-v.e - k)])))

\* 1 / r for a Fraction r
Reciprocal(r) ==
    Let1(r, LAMBDA v :
        IF v.numerator = << >> THEN Raise("ZeroDivisionError")
        ELSE Ok([neg |-> v.neg, numerator |-> v.denominator, denominator |-> v.numerator]))

\* a faulty sum of Fractions that adds numerators and adds denominators
FracAddMediant(a, b) ==
    Let2(a, b, LAMBDA v, w :
        Let1(BigAdd(v.denominator, w.denominator), LAMBDA denominator :
            IF v.neg = w.neg THEN Reduced(v.neg, BigAdd(v.numerator, w.numerator), denominator)
            ELSE IF BigCmp(v.numerator, w.numerator) >= 0
            THEN Reduced(v.neg, BigSub(v.numerator, w.numerator), denominator)
            ELSE Reduced(w.neg, BigSub(w.numerator, v.numerator), denominator)))

\* a + b for Fractions
FracAdd(a, b) ==
    Let2(a, b, LAMBDA v, w :
        Let3(BigMul(v.numerator, w.denominator), BigMul(w.numerator, v.denominator),
             BigMul(v.denominator, w.denominator),
             LAMBDA x, y, denominator :
                IF v.neg = w.neg THEN Reduced(v.neg, BigAdd(x, y), denominator)
                ELSE Let1(BigCmp(x, y), LAMBDA c :
                         IF c >= 0 THEN Reduced(v.neg, BigSub(x, y), denominator)
                         ELSE Reduced(w.neg, BigSub(y, x), denominator))))

\* a < b for Fractions
FracLess(a, b) ==
    Let2(a, b, LAMBDA v, w :
        Let1(BigCmp(BigMul(v.numerator, w.denominator),
                    BigMul(w.numerator, v.denominator)), LAMBDA c :
            CASE v.neg /\ ~w.neg -> TRUE
              [] ~v.neg /\ w.neg -> FALSE
              [] v.neg /\ w.neg -> c > 0
              [] OTHER -> c < 0))

\* a faulty line 14 with d! taken as gamma(d)
Line14GammaOfD(d, n) ==
    Let1(Fraction(FDiv(gamma(n + d), FMul(gamma(n), gamma(d)))), LAMBDA f :
        IF f.ok THEN Reciprocal(f.v) ELSE f)

\* a faulty line 14 without the "1 /"
Line14NotInverted(d, n) ==
    Fraction(FDiv(gamma(n + d), FMul(gamma(n), gamma(d + 1))))

\* line 14: 1 / Fraction(gamma(n + d) / (gamma(n) * gamma(d + 1)))
Line14(d, n) ==
    Let1(Fraction(FDiv(gamma(n + d), FMul(gamma(n), gamma(d + 1)))), LAMBDA f :
        IF f.ok THEN Reciprocal(f.v) ELSE f)

(***************************************************************************)
(* The program's constants and the bounds of the model: the dimensions a   *)
(* client creates generators for, the most values it takes of one          *)
(* generator and the places it has to hold generators in.                  *)
(***************************************************************************)
N == 10
DefaultD == 2

Dims == {1, 2, 3, 170, 171}
MaxSteps == 23
Slots == {1, 2}

\* Line14 at every dimension and index the model evaluates it at, computed
\* once: a row ends at its first exception, which closes the generator
RECURSIVE TermRow(_, _, _)
TermRow(d, n, row) ==
    Let2(Line14(d, n), row, LAMBDA t, r :
        IF ~t.ok \/ n >= Max(N, MaxSteps) THEN Append(r, t)
        ELSE TermRow(d, n + 1, Append(r, t)))

MemoDims == Dims \cup {DefaultD, 3}
MemoTop == CHOOSE m \in MemoDims : \A d \in MemoDims : d <= m
TermMemo ==
    Tup([d \in 1..MemoTop |-> IF d \in MemoDims THEN TermRow(d, 1, << >>) ELSE << >>])

\* the value line 14 yields at index n, or the exception it raises
Term(d, n) == TermMemo[d][n]

(***************************************************************************)
(* Generator objects.  A generator's body runs only inside next(): a new   *)
(* generator is "created" and its frame holds the argument d alone; the    *)
(* locals of the body (n; x and gen_inv_tr_nums) are bound when the first  *)
(* next() runs lines 11 and 19-20.  One that waits at its yield is         *)
(* "suspended", and one whose body raised is "closed".  out is the history *)
(* of the values it has yielded.                                           *)
(***************************************************************************)
Unbound == [kind |-> "unbound"]
NoGen == [kind |-> "none"]

\* inv_tr_nums(d): the call only creates the generator
inv_tr_nums(d) ==
    [kind |-> "tr", d |-> d, state |-> "created", out |-> << >>, err |-> "none"]

\* the generator of inv_tr_nums after next() has run it at index n and the
\* yield of line 14 gave t
Resumed(g, n, t) ==
    Let3(g, n, t, LAMBDA v, n1, r :
        IF r.ok
        THEN [kind |-> "tr", d |-> v.d, state |-> "suspended", n |-> n1,
              out |-> Append(v.out, r.v), err |-> "none"]
        ELSE [kind |-> "tr", d |-> v.d, state |-> "closed", n |-> n1,
              out |-> v.out, err |-> r.err])

\* a faulty next() of inv_tr_nums that leaves out line 15: n stays 1
next_tr_same_n(g) == Let1(g, LAMBDA v : Resumed(v, 1, Term(v.d, 1)))

\* next() on a generator of inv_tr_nums that is not closed: n = 1 on the
\* first call and n += 1 on a later one, then the yield of line 14
next_tr(g) ==
    Let1(g, LAMBDA v :
        Let1(IF v.state = "created" THEN 1 ELSE v.n + 1, LAMBDA n1 :
            Resumed(v, n1, Term(v.d, n1))))

\* inv_gap_nums(d): the call only creates the generator
inv_gap_nums(d) ==
    [kind |-> "gap", d |-> d, state |-> "created", out |-> << >>, err |-> "none"]

\* the generator of inv_gap_nums after next() has run it from the
\* accumulator x0 with the underlying generator, stepped, in t
Accumulated(g, x0, t) ==
    Let3(g, x0, t, LAMBDA v, x, u :
        IF u.state = "closed"
        THEN [kind |-> "gap", d |-> v.d, state |-> "closed", x |-> x,
              gen_inv_tr_nums |-> u, out |-> v.out, err |-> u.err]
        ELSE Let1(FracAdd(x, u.out[Len(u.out)]), LAMBDA x1 :
                 [kind |-> "gap", d |-> v.d, state |-> "suspended", x |-> x1,
                  gen_inv_tr_nums |-> u, out |-> Append(v.out, x1),
                  err |-> "none"]))

\* a faulty next() of inv_gap_nums whose accumulator starts at 0
next_gap_from_0(g) ==
    Let1(g, LAMBDA v :
        Accumulated(v, IF v.state = "created" THEN Q(0, 1) ELSE v.x,
                    next_tr(IF v.state = "created" THEN inv_tr_nums(v.d)
                            ELSE v.gen_inv_tr_nums)))

\* a faulty next() of inv_gap_nums that takes the terms of the default
\* dimension whatever d is
next_gap_default_d(g) ==
    Let1(g, LAMBDA v :
        Accumulated(v, IF v.state = "created" THEN Q(-1, 1) ELSE v.x,
                    next_tr(IF v.state = "created" THEN inv_tr_nums(DefaultD)
                            ELSE v.gen_inv_tr_nums)))

\* next() on a generator of inv_gap_nums that is not closed: x = -1 and
\* gen_inv_tr_nums = inv_tr_nums(d) on the first call, then
\* x += next(gen_inv_tr_nums) and the yield of x
next_gap(g) ==
    Let1(g, LAMBDA v :
        Accumulated(v, IF v.state = "created" THEN Q(-1, 1) ELSE v.x,
                    next_tr(IF v.state = "created" THEN inv_tr_nums(v.d)
                            ELSE v.gen_inv_tr_nums)))

\* the builtin next() on a generator that is not closed
next(g) == Let1(g, LAMBDA v : IF v.kind = "tr" THEN next_tr(v) ELSE next_gap(v))

\* str() of a Fraction: the numerator alone when the denominator is 1,
\* else numerator/denominator
str(f) ==
    Let1(f, LAMBDA v :
        IF v.denominator = BigOne
        THEN [txt |-> "int", neg |-> v.neg, numerator |-> v.numerator]
        ELSE [txt |-> "frac", neg |-> v.neg, numerator |-> v.numerator,
              denominator |-> v.denominator])

Separator == [txt |-> "---"]

(***************************************************************************)
(* The values the documentation gives for the two sequences, and the       *)
(* lines it has the module-level code print.                               *)
(***************************************************************************)
\* the binomial coefficient C(n, k) for 0 <= k <= n
Binom(n, k) == BigDivMod(BigProd(n - k + 1, n), BigProd(1, k)).q

\* 1 / C(n + d - 1, d), the n-th term as documented
ClosedForm(d, n) ==
    [neg |-> FALSE, numerator |-> BigOne, denominator |-> Binom(n + d - 1, d)]

\* how many terms inv_tr_nums(d) yields within the bounds before it raises
Yields(d) ==
    Let1(TermMemo[d], LAMBDA row : IF row[Len(row)].ok THEN Len(row) ELSE Len(row) - 1)

ClosedFormMemo ==
    Tup([d \in 1..MemoTop |->
            IF d \in MemoDims
            THEN Tup([n \in 1..Yields(d) |-> ClosedForm(d, n)])
            ELSE << >>])

\* the sum of the terms lo..hi of inv_tr_nums(d), added up by halves
RECURSIVE SumTerms(_, _, _)
SumTerms(d, lo, hi) ==
    Let3(d, lo, hi, LAMBDA dd, l, h :
        IF l = h THEN Term(dd, l).v
        ELSE FracAdd(SumTerms(dd, l, (l + h) \div 2),
                     SumTerms(dd, ((l + h) \div 2) + 1, h)))

\* -1 plus the sum of the first k terms of inv_tr_nums(d)
GapMemo ==
    Tup([d \in 1..MemoTop |->
            IF d \in MemoDims
            THEN Tup([k \in 1..Yields(d) |-> FracAdd(Q(-1, 1), SumTerms(d, 1, k))])
            ELSE << >>])

\* the lines the module-level code is to print
TermLines(d) == [n \in 1..N |-> str(Term(d, n).v)]

GapLines(d) == [k \in 1..N |-> str(GapMemo[d][k])]

ExpectedOutput ==
    TermLines(2) \o << Separator >> \o TermLines(3) \o << Separator >>
    \o GapLines(2) \o << Separator >> \o GapLines(3)

(***************************************************************************)
(* The state: the module-level code (its line, its globals gen and num,    *)
(* the count of its islice, what it has printed, how it ended) and, once   *)
(* it has run, the generators a client of the two functions holds.         *)
(***************************************************************************)
VARIABLES pc, gen, cnt, num, stdout, status, pool

vars == << pc, gen, cnt, num, stdout, status, pool >>

FirstLine == 28
LastLine == 45
AssignLines == {28, 33, 38, 43}
ForLines == {29, 34, 39, 44}
PrintLines == {30, 35, 40, 45}
SeparatorLines == {32, 37, 42}

\* a faulty module-level code that has the second and the third
\* assignment to gen the other way round
GenAtSwapped(line) ==
    CASE line = 28 -> inv_tr_nums(DefaultD)
      [] line = 33 -> inv_gap_nums(DefaultD)
      [] line = 38 -> inv_tr_nums(3)
      [] line = 43 -> inv_gap_nums(3)

\* the right-hand side of the assignment to gen on lines 28, 33, 38, 43
GenAt(line) ==
    CASE line = 28 -> inv_tr_nums(DefaultD)
      [] line = 33 -> inv_tr_nums(3)
      [] line = 38 -> inv_gap_nums(DefaultD)
      [] line = 43 -> inv_gap_nums(3)

Init ==
    /\ pc = FirstLine
    /\ gen = Unbound
    /\ cnt = 0
    /\ num = Unbound
    /\ stdout = << >>
    /\ status = "running"
    /\ pool = [i \in Slots |-> NoGen]

\* gen = inv_tr_nums() and the like; the for statement below it makes a
\* new islice(gen, N), which has passed on nothing yet
Assign ==
    /\ status = "running"
    /\ pc \in AssignLines
    /\ gen' = GenAt(pc)
    /\ cnt' = 0
    /\ pc' = pc + 1
    /\ UNCHANGED << num, stdout, status, pool >>

\* for num in islice(gen, N): the islice takes the next value of gen until
\* it has passed on N of them, and then ends the loop without touching gen;
\* an exception out of gen ends the program with a traceback
For ==
    /\ status = "running"
    /\ pc \in ForLines
    /\ IF cnt < N
       THEN \E g \in {next(gen)} :
                /\ gen' = g
                /\ IF g.state = "closed"
                   THEN /\ status' = "traceback"
                        /\ UNCHANGED << pc, cnt, num >>
                   ELSE /\ num' = g.out[Len(g.out)]
                        /\ cnt' = cnt + 1
                        /\ pc' = pc + 1
                        /\ UNCHANGED status
       ELSE /\ pc' = pc + 3
            /\ status' = IF pc + 3 > LastLine THEN "exit0" ELSE status
            /\ UNCHANGED << gen, cnt, num >>
    /\ UNCHANGED << stdout, pool >>

\* print(num)
PrintNum ==
    /\ status = "running"
    /\ pc \in PrintLines
    /\ stdout' = Append(stdout, str(num))
    /\ pc' = pc - 1
    /\ UNCHANGED << gen, cnt, num, status, pool >>

\* print('---')
PrintSeparator ==
    /\ status = "running"
    /\ pc \in SeparatorLines
    /\ stdout' = Append(stdout, Separator)
    /\ pc' = pc + 1
    /\ UNCHANGED << gen, cnt, num, status, pool >>

Driver == Assign \/ For \/ PrintNum \/ PrintSeparator

\* a faulty inv_tr_nums that keeps one generator for each d and hands it
\* out again: the new holder goes on where the last one is
CallTrCached(i, d) ==
    /\ status = "exit0"
    /\ pool[i] = NoGen
    /\ \A j \in 1..(i - 1) : pool[j] # NoGen
    /\ pool' = [pool EXCEPT ![i] =
                   IF \E j \in 1..(i - 1) : pool[j].kind = "tr" /\ pool[j].d = d
                   THEN LET j == CHOOSE k \in 1..(i - 1) :
                                     pool[k].kind = "tr" /\ pool[k].d = d
                        IN  IF pool[j].state = "created" THEN pool[j]
                            ELSE [pool[j] EXCEPT !.out = << >>]
                   ELSE inv_tr_nums(d)]
    /\ UNCHANGED << pc, gen, cnt, num, stdout, status >>

\* a client of the module calls inv_tr_nums(d)
CallTr(i, d) ==
    /\ status = "exit0"
    /\ pool[i] = NoGen
    /\ \A j \in 1..(i - 1) : pool[j] # NoGen
    /\ pool' = [pool EXCEPT ![i] = inv_tr_nums(d)]
    /\ UNCHANGED << pc, gen, cnt, num, stdout, status >>

\* a client of the module calls inv_gap_nums(d)
CallGap(i, d) ==
    /\ status = "exit0"
    /\ pool[i] = NoGen
    /\ \A j \in 1..(i - 1) : pool[j] # NoGen
    /\ pool' = [pool EXCEPT ![i] = inv_gap_nums(d)]
    /\ UNCHANGED << pc, gen, cnt, num, stdout, status >>

\* a faulty next() whose generators of one function and one d share their
\* frame: a step of one is a step of them all
ClientNextShared(i) ==
    /\ status = "exit0"
    /\ pool[i] # NoGen
    /\ pool[i].state # "closed"
    /\ Len(pool[i].out) < MaxSteps
    /\ pool' = [j \in Slots |->
                   IF j = i
                      \/ (/\ pool[j].kind = pool[i].kind
                          /\ pool[j].d = pool[i].d
                          /\ pool[j].state # "closed"
                          /\ Len(pool[j].out) < MaxSteps)
                   THEN next(pool[j])
                   ELSE pool[j]]
    /\ UNCHANGED << pc, gen, cnt, num, stdout, status >>

\* a client calls next() on one of its generators (on a closed generator
\* next() raises StopIteration and changes nothing)
ClientNext(i) ==
    /\ status = "exit0"
    /\ pool[i] # NoGen
    /\ pool[i].state # "closed"
    /\ Len(pool[i].out) < MaxSteps
    /\ pool' = [pool EXCEPT ![i] = next(pool[i])]
    /\ UNCHANGED << pc, gen, cnt, num, stdout, status >>

Client ==
    \E i \in Slots :
        \/ \E d \in Dims : CallTr(i, d)
        \/ \E d \in Dims : CallGap(i, d)
        \/ ClientNext(i)

Next == Driver \/ Client

Spec == Init /\ [][Next]_vars

\* the module-level code is run to its end
LiveSpec == Spec /\ WF_vars(Driver)

(***************************************************************************)
(* What the properties speak of: the generators alive in a state.          *)
(***************************************************************************)
\* the generators the module-level code and the client hold
Held == {pool[i] : i \in Slots} \cup {gen}

\* the generators of inv_gap_nums among them
GapGens == {g \in Held : g.kind = "gap"}

\* the generators of inv_tr_nums: those held, and the one inside each
\* generator of inv_gap_nums that has been started
TrGens ==
    {g \in Held : g.kind = "tr"}
    \cup {g.gen_inv_tr_nums : g \in {h \in GapGens : h.state # "created"}}

\* C1 as documented: every value a generator of inv_tr_nums(d) has yielded,
\* the n-th, is exactly 1 / C(n + d - 1, d), for every d >= 1 and n >= 1.
\* The float64 quotient of line 14 is not exact once a factorial in it
\* needs more than 53 bits: the 22nd term of inv_tr_nums(2) is
\* 2^45 / (253 * 2^45 + 1), not 1/253.
C1_TermIsInverseBinomial ==
    \A g \in TrGens : \A n \in 1..Len(g.out) : g.out[n] = ClosedFormMemo[g.d][n]

\* C1, as far as it holds: while n + d <= 23 (every factorial that line 14
\* takes is at most 22!, which a float64 holds exactly) the n-th value
\* yielded by inv_tr_nums(d) is exactly 1 / C(n + d - 1, d).
C1_TermIsInverseBinomialWhileExact ==
    \A g \in TrGens : \A n \in 1..Len(g.out) :
        n + g.d <= 23 => g.out[n] = ClosedFormMemo[g.d][n]

\* a client has taken the 20th term of inv_tr_nums(3), 1/C(22, 3) = 1/1540
C1_Witness ==
    \E i \in Slots :
        /\ pool[i].kind = "tr"
        /\ pool[i].d = 3
        /\ Len(pool[i].out) >= 20
        /\ pool[i].out[20] = Q(1, 1540)

\* C2: in a generator of inv_gap_nums(d) that has been started, x is -1
\* until a step has yielded and then the value yielded last, and the k-th
\* value yielded is -1 plus the sum of the first k terms of inv_tr_nums(d).
C2_GapIsPartialSumMinusOne ==
    \A g \in GapGens :
        /\ \A k \in 1..Len(g.out) :
               k <= Len(GapMemo[g.d]) /\ g.out[k] = GapMemo[g.d][k]
        /\ g.state # "created" =>
               g.x = IF g.out = << >> THEN Q(-1, 1) ELSE g.out[Len(g.out)]

\* a client has taken five values of inv_gap_nums(3); the fifth is
\* -1 + 1 + 1/4 + 1/10 + 1/20 + 1/35 = 3/7
C2_Witness ==
    \E i \in Slots :
        /\ pool[i].kind = "gap"
        /\ pool[i].d = 3
        /\ Len(pool[i].out) = 5
        /\ pool[i].x = Q(3, 7)

\* C3 as documented: the first three values of inv_gap_nums(2) are
\* 0, -2/3, -1/2.
C3_FirstGapValuesAsDocumented ==
    \A g \in GapGens :
        g.d = 2 /\ Len(g.out) >= 3 =>
            SubSeq(g.out, 1, 3) = << Q(0, 1), Q(-2, 3), Q(-1, 2) >>

\* C3, as the code has it: the first three values of inv_gap_nums(2) are
\* 0, 1/3, 1/2 (-1 + 1, then + 1/3, then + 1/6).
C3_FirstGapValues ==
    \A g \in GapGens :
        g.d = 2 /\ Len(g.out) >= 3 =>
            SubSeq(g.out, 1, 3) = << Q(0, 1), Q(1, 3), Q(1, 2) >>

\* a client has taken exactly three values of inv_gap_nums(2)
C3_Witness ==
    \E i \in Slots :
        pool[i].kind = "gap" /\ pool[i].d = 2 /\ Len(pool[i].out) = 3

\* C4: the first three values of inv_tr_nums(2) are 1, 1/3, 1/6.
C4_FirstTriangularValues ==
    \A g \in TrGens :
        g.d = 2 /\ Len(g.out) >= 3 =>
            SubSeq(g.out, 1, 3) = << Q(1, 1), Q(1, 3), Q(1, 6) >>

\* a client has taken exactly three values of inv_tr_nums(2)
C4_Witness ==
    \E i \in Slots :
        pool[i].kind = "tr" /\ pool[i].d = 2 /\ Len(pool[i].out) = 3

\* C5 as documented: for every d >= 1 and n >= 1 a step of inv_tr_nums(d),
\* and so of inv_gap_nums(d), yields a value and never ends in an
\* exception.  gamma(172) is inf: the second step of inv_tr_nums(170) has
\* Fraction(inf) raise OverflowError, and the first of inv_tr_nums(171)
\* has Fraction(inf / inf) raise ValueError.
C5_NoStepRaises ==
    \A g \in TrGens \cup GapGens : g.state # "closed"

Exited == status = "exit0" /\ stdout = ExpectedOutput

\* C6: the module-level code pulls N values of each of its four
\* generators and no more, and it comes to its end having printed the N
\* terms of inv_tr_nums(2), '---', the N terms of inv_tr_nums(3), '---',
\* the N values of inv_gap_nums(2), '---' and the N values of
\* inv_gap_nums(3): three separators, none after the last block.
C6_DriverOutput ==
    /\ [](status = "running" /\ gen # Unbound =>
             /\ Len(gen.out) = cnt
             /\ cnt <= N
             /\ (pc \in SeparatorLines \/ pc \in AssignLines => cnt = N))
    /\ [](status # "traceback")
    /\ <>[]Exited

\* the module-level code has ended after 4 * N values and 3 separators,
\* its last generator having yielded N values
C6_Witness ==
    /\ status = "exit0"
    /\ Len(stdout) = 4 * N + 3
    /\ Cardinality({i \in 1..Len(stdout) : stdout[i] = Separator}) = 3
    /\ stdout[Len(stdout)] # Separator
    /\ Len(gen.out) = N

\* two generators of the same function and the same d
SameProducer(g, h) ==
    /\ g.kind = h.kind
    /\ g.kind \in {"tr", "gap"}
    /\ g.d = h.d

\* C7: two generators of the same function and the same d yield the same
\* values, whatever the order their steps and those of other generators
\* are taken in: the one that is behind has yielded a prefix of what the
\* other has, and where one has raised the other yields no further value.
C7_Deterministic ==
    \A g \in Held : \A h \in Held :
        SameProducer(g, h) /\ Len(g.out) <= Len(h.out) =>
            /\ g.out = SubSeq(h.out, 1, Len(g.out))
            /\ g.state = "closed" => Len(h.out) = Len(g.out)

\* a client holds two generators of the same function and d, each stepped
\* N times or more, and one of them further than the other
C7_Witness ==
    /\ SameProducer(pool[1], pool[2])
    /\ Len(pool[1].out) >= N
    /\ Len(pool[2].out) > Len(pool[1].out)

\* C8: a generator of inv_tr_nums has no n before its first step; its k-th
\* step runs line 14 at n = k, so that suspended after k steps it has
\* n = k and has yielded the terms 1..k, none left out and none twice, and
\* the step that raised was the one after its last value.  Each step of a
\* generator of inv_gap_nums is one step of its own inv_tr_nums(d).
C8_IndexCountsSteps ==
    /\ \A g \in TrGens :
           /\ \A k \in 1..Len(g.out) : g.out[k] = Term(g.d, k).v
           /\ CASE g.state = "created" -> g.out = << >> /\ "n" \notin DOMAIN g
                [] g.state = "suspended" -> g.n = Len(g.out) /\ g.n >= 1
                [] g.state = "closed" -> g.n = Len(g.out) + 1 /\ ~Term(g.d, g.n).ok
    /\ \A g \in GapGens :
           CASE g.state = "created" -> g.out = << >> /\ "gen_inv_tr_nums" \notin DOMAIN g
             [] g.state = "suspended" ->
                    /\ g.gen_inv_tr_nums.d = g.d
                    /\ g.gen_inv_tr_nums.state = "suspended"
                    /\ g.gen_inv_tr_nums.n = Len(g.out)
             [] g.state = "closed" ->
                    /\ g.gen_inv_tr_nums.d = g.d
                    /\ g.gen_inv_tr_nums.state = "closed"
                    /\ g.gen_inv_tr_nums.n = Len(g.out) + 1

\* a client has stepped a generator of inv_gap_nums seven times, and the
\* generator inside it is at n = 7
C8_Witness ==
    \E i \in Slots :
        /\ pool[i].kind = "gap"
        /\ Len(pool[i].out) = 7
        /\ pool[i].gen_inv_tr_nums.n = 7
        /\ Len(pool[i].gen_inv_tr_nums.out) = 7

\* what a generator is of: the function and d
Producer(g) == IF g.kind \in {"tr", "gap"} THEN << g.kind, g.d >> ELSE << g.kind >>

\* C9: a step changes one generator at most.  A call or a step in the
\* module-level code leaves every generator of the client as it is; a call
\* or a step of the client leaves gen and every other generator of the
\* client as they are (n, x, d and the generator inside a generator of
\* inv_gap_nums with them), whether or not they have the same d; and the d
\* of the generator stepped stays what it is.
C9_Frame ==
    /\ gen' # gen => pool' = pool
    /\ \A i \in Slots :
           pool'[i] # pool[i] =>
               /\ gen' = gen
               /\ \A j \in Slots : j # i => pool'[j] = pool[j]
               /\ pool[i] # NoGen => Producer(pool'[i]) = Producer(pool[i])
               /\ pool[i] # NoGen /\ pool[i].kind = "gap" /\ pool[i].state # "created" =>
                      pool'[i].gen_inv_tr_nums.d = pool[i].gen_inv_tr_nums.d
    /\ gen # Unbound /\ gen' # Unbound /\ pc \notin AssignLines =>
           Producer(gen') = Producer(gen)

C9_StepsAreLocal == [][C9_Frame]_vars

\* a client holds two generators of the same function and d of which one
\* has been stepped five times and the other not at all
C9_Witness ==
    /\ SameProducer(pool[1], pool[2])
    /\ Len(pool[1].out) = 5
    /\ pool[2].state = "created"

\* C10 as stated: for every k >= 1 the k-th value of inv_gap_nums(2) is
\* (k - 1) / (k + 1).  The 22nd is not: it has the inexact 22nd term of
\* inv_tr_nums(2) in it.
C10_GapOfTwoClosedForm ==
    \A g \in GapGens :
        g.d = 2 => \A k \in 1..Len(g.out) : g.out[k] = Q(k - 1, k + 1)

\* C10, as far as it holds: the k-th value of inv_gap_nums(2) is
\* (k - 1) / (k + 1) for k <= 21; the values start at 0, each is more than
\* the one before it, and each is less than 1.
C10_GapOfTwoClosedFormWhileExact ==
    \A g \in GapGens :
        g.d = 2 =>
            \A k \in 1..Len(g.out) :
                /\ k <= 21 => g.out[k] = Q(k - 1, k + 1)
                /\ k = 1 => g.out[k] = Q(0, 1)
                /\ k > 1 => FracLess(g.out[k - 1], g.out[k])
                /\ FracLess(g.out[k], Q(1, 1))

\* a client has taken 21 values of inv_gap_nums(2), the last one 20/22
C10_Witness ==
    \E i \in Slots :
        /\ pool[i].kind = "gap"
        /\ pool[i].d = 2
        /\ Len(pool[i].out) = 21
        /\ pool[i].x = Q(10, 11)
====
